---------------------------- MODULE Spec2Model ----------------------------
(***************************************************************************)
(* Model of the voice-assistant front end: the activity log (addLog), the  *)
(* recording lifecycle (startRecording / stopRecording / tick) of          *)
(* UnifiedDashboard and VoiceManagerNew, and the session configuration     *)
(* resolver of UnifiedDashboard and of the page-level Dashboard.           *)
(***************************************************************************)
EXTENDS Integers, Sequences, FiniteSets, TLC

VARIABLES
    \* --- the activity log (both recording surfaces keep one) ---
    logs,               \* useState<LogEntry[]>, newest first
    nextId,             \* number of log entries created so far (ids are unique)
    now,                \* wall clock, in clock units since the midnight before start
    hour12,             \* the browser locale prints clock times as 12-hour AM/PM
    \* --- the recording session ---
    surface,            \* which component shows the record button
    recordingStatus,    \* useState<RecordingStatus>
    recordingTime,      \* useState(0): elapsed-time counter
    recordingInterval,  \* useRef: handle of the tick timer, 0 for null
    timers,             \* live setInterval timers of the page
    nextTimer,          \* number of timers created so far
    streams,            \* audio streams the AudioRecorder holds
    calls,              \* startRecording / stopRecording invocations awaiting a result
    latestResponse,     \* useState('How can I help you today?')
    lastAnswer,         \* what the gateway call handled last came to
    \* --- the resolved session of UnifiedDashboard ---
    selectedTool,       \* useState<ProjectTool | null>
    platformConfig,     \* useState<PlatformConfig | null>
    isConfigured,       \* useState(false)
    showConfigForm,     \* useState(false)
    showSwitchConfirm,  \* useState(false)
    trelloBoards,       \* useState<{id, name}[]>
    selectedBoardId,    \* useState<string | null>
    trelloBoardError,   \* useState<string | null>
    boardFetches,       \* board-discovery requests awaiting a response
    lastFetch,          \* what the board-discovery request handled last came to
    \* --- the page-level Dashboard ---
    dashPlatform,       \* useState<string>('')
    dashSelectedBoard,  \* useState<string>('')
    dashBoards,         \* useState<TrelloBoard[]>([])
    dashBoardError,     \* useState<string | null>(null)
    dashFetches,        \* calls of fetchTrelloBoards awaiting a response
    \* --- persistence tiers ---
    lsLinear,           \* localStorage 'linear_config'
    lsAsana,            \* localStorage 'asana_config'
    lsTrelloToken,      \* localStorage 'trello_token'
    cookies,            \* js-cookie jar: name -> value
    \* --- observation ---
    lastOp,             \* name of the handler that ran last
    lastPayload,        \* location.state the resolver last ran with
    \* --- ConfigureApp (pages) ---
    formData,           \* useState<Record<string, string>>({})
    uncaught            \* an exception has left a handler or an effect uncaught

logVars == <<logs, nextId>>
clockVars == <<now, hour12>>
recVars == <<recordingStatus, recordingTime, recordingInterval, timers, nextTimer,
             streams, calls, latestResponse, lastAnswer>>
sessionVars == <<selectedTool, platformConfig, isConfigured, showConfigForm,
                 showSwitchConfirm>>
boardVars == <<trelloBoards, selectedBoardId, trelloBoardError, boardFetches, lastFetch>>
dashVars == <<dashPlatform, dashSelectedBoard, dashBoards, dashBoardError, dashFetches>>
storeVars == <<lsLinear, lsAsana, lsTrelloToken, cookies>>
pageVars == <<formData, uncaught>>

vars == <<logVars, clockVars, surface, recVars, sessionVars, boardVars, dashVars,
          storeVars, lastOp, lastPayload, pageVars>>

-----------------------------------------------------------------------------
(* Bounds of the model *)

HalfDay == 27           \* clock units in half a day
MaxAppends == 52        \* appends explored by the log specification

(* Program constants *)

LogCapacity == 50       \* .slice(0, 50)

DayLen == 2 * HalfDay

-----------------------------------------------------------------------------
(* Log entries *)

NoDetails == [none |-> TRUE]

\* No board-discovery request has been answered yet.
NoFetch == [kind |-> "none"]

\* No gateway call has been answered yet.
NoAnswer == [kind |-> "none"]

\* new Date().toLocaleTimeString(): the date is dropped, only the time of day
\* is printed; a 12-hour locale prints 12 for the hours 0 and 12 and adds AM/PM.
toLocaleTimeString(t, h12) ==
    LET tod == t % DayLen IN
    IF h12
    THEN [clock |-> IF tod % HalfDay = 0 THEN HalfDay ELSE tod % HalfDay,
          mer   |-> IF tod < HalfDay THEN "AM" ELSE "PM"]
    ELSE [clock |-> tod, mer |-> ""]

\* new Date(`1970-01-01 ${timestamp}`).getTime(): the time of day read back from
\* the printed string (12 AM is hour 0, 12 PM is noon).
TimeKey(ts) ==
    IF ts.mer = ""
    THEN ts.clock
    ELSE (ts.clock % HalfDay) + (IF ts.mer = "PM" THEN HalfDay ELSE 0)

\* The entries of s by descending key, K being the keys still to place; entries
\* of one key keep their order: what Array.prototype.sort((a, b) => timeB - timeA)
\* returns (the sort is stable).
RECURSIVE SortFrom(_, _)
SortFrom(s, K) ==
    IF K = {} THEN <<>>
    ELSE LET k == CHOOSE x \in K : \A y \in K : y <= x IN
         SelectSeq(s, LAMBDA e : TimeKey(e.timestamp) = k) \o SortFrom(s, K \ {k})

\* A plausible slip: the re-sort is left out.
SortSkipped(s) == s

SortNewestFirst(s) == SortFrom(s, { TimeKey(s[i].timestamp) : i \in 1..Len(s) })

\* A plausible slip: the list is not cut.
Unsliced(s, n) == s

\* A plausible slip: the cut is one entry short of the capacity.
SliceEarly(s, n) == SubSeq(s, 1, IF Len(s) < n - 1 THEN Len(s) ELSE n - 1)

\* Array.prototype.slice(0, n)
Slice(s, n) == SubSeq(s, 1, IF Len(s) < n THEN Len(s) ELSE n)

\* The LogEntry addLog builds: a fresh id, the time of day as the locale prints it.
NewLog(id, type, message, details) ==
    [id |-> id, timestamp |-> toLocaleTimeString(now, hour12),
     type |-> type, message |-> message, details |-> details]

\* setLogs(prev => [newLog, ...prev].slice(0, 50).sort(...))
addLog(prev, newLog) ==
    SortNewestFirst(Slice(<<newLog>> \o prev, LogCapacity))

\* Several addLog calls of one handler, in call order; item = <<type, message, details>>.
RECURSIVE addLogs(_, _, _)
addLogs(prev, id, items) ==
    IF items = <<>> THEN prev
    ELSE addLogs(addLog(prev, NewLog(id + 1, items[1][1], items[1][2], items[1][3])),
                 id + 1, Tail(items))

Info(message) == <<"info", message, NoDetails>>
Success(message) == <<"success", message, NoDetails>>
Error(message) == <<"error", message, NoDetails>>

-----------------------------------------------------------------------------
(* Values *)

Absent == ""                        \* undefined / null / missing: falsy
NullConfig == [null |-> TRUE]       \* platformConfig === null
NoPayload == [none |-> TRUE]        \* location.state is null
NoItem == [none |-> TRUE]           \* localStorage.getItem(...) === null

UD == "UnifiedDashboard"
VM == "VoiceManagerNew"

TrelloCfg == [apiKey |-> "k1", token |-> "t1", boardId |-> "b1"]
LinearCfg == [apiKey |-> "k1", workspaceId |-> "w1"]
AsanaCfg == [personalAccessToken |-> "p1", projectId |-> "j1"]

CookieNames == {"apiKey", "token", "boardId", "workspaceId", "personalAccessToken",
                "projectId", "platform"}
NoCookies == [n \in CookieNames |-> Absent]

\* value.charAt(0).toUpperCase() + value.slice(1)
Capitalize(p) ==
    CASE p = "trello" -> "Trello"
      [] p = "linear" -> "Linear"
      [] p = "asana" -> "Asana"
      [] p = "notion" -> "Notion"
      [] OTHER -> p

\* JSON.stringify of a config object, and a stored string that is no JSON.
Stringify(c) == [json |-> c]
Garbage == [text |-> "{oops"]
Parses(item) == "json" \in DOMAIN item
Parse(item) == item.json

-----------------------------------------------------------------------------
(* The state before any component has run *)

FreshLog == logs = <<>> /\ nextId = 0

FreshRecording ==
    /\ recordingStatus = "idle"
    /\ recordingTime = 0
    /\ recordingInterval = 0
    /\ timers = {}
    /\ nextTimer = 0
    /\ streams = 0
    /\ calls = <<>>
    /\ latestResponse = "How can I help you today?"
    /\ lastAnswer = NoAnswer

FreshSession ==
    /\ selectedTool = Absent
    /\ platformConfig = NullConfig
    /\ isConfigured = FALSE
    /\ showConfigForm = FALSE
    /\ showSwitchConfirm = FALSE

FreshBoards ==
    /\ trelloBoards = <<>>
    /\ selectedBoardId = Absent
    /\ trelloBoardError = Absent
    /\ boardFetches = <<>>
    /\ lastFetch = NoFetch

\* useState initial values of Dashboard's board list.
FreshDashBoards == dashBoards = <<>> /\ dashBoardError = Absent /\ dashFetches = 0

FreshDashboard == dashPlatform = Absent /\ dashSelectedBoard = Absent /\ FreshDashBoards

\* useState({}) of ConfigureApp; nothing has escaped uncaught.
EmptyForm == [none |-> TRUE]

FreshPage == formData = EmptyForm /\ uncaught = FALSE

EmptyStorage ==
    /\ lsLinear = NoItem
    /\ lsAsana = NoItem
    /\ lsTrelloToken = Absent
    /\ cookies = NoCookies

-----------------------------------------------------------------------------
(* The activity log on its own: appends at a clock that runs into midnight *)

InitLog ==
    /\ FreshLog
    /\ now \in {DayLen - 2, DayLen - 1}
    /\ hour12 \in BOOLEAN
    /\ surface = UD
    /\ FreshRecording /\ FreshSession /\ FreshBoards /\ FreshDashboard /\ EmptyStorage
    /\ lastOp = "init"
    /\ lastPayload = NoPayload
    /\ FreshPage

\* One addLog call.
LogAppend ==
    /\ nextId < MaxAppends
    /\ logs' = addLogs(logs, nextId, <<Info("entry")>>)
    /\ nextId' = nextId + 1
    /\ lastOp' = "addLog"
    /\ UNCHANGED <<clockVars, surface, recVars, sessionVars, boardVars, dashVars,
                   storeVars, lastPayload, pageVars>>

\* Time passes while the page is open (at most up to the first unit after midnight).
TimePasses ==
    /\ now < DayLen
    /\ now' = now + 1
    /\ UNCHANGED <<logVars, hour12, surface, recVars, sessionVars, boardVars, dashVars,
                   storeVars, lastOp, lastPayload, pageVars>>

NextLog == LogAppend \/ TimePasses

SpecLog == InitLog /\ [][NextLog]_vars

\* The log under appends that each come one clock unit after the one before,
\* all on one day: the timestamps are strictly increasing.
InitSeq ==
    /\ FreshLog
    /\ now \in 0..(DayLen - MaxAppends)
    /\ hour12 \in BOOLEAN
    /\ surface = UD
    /\ FreshRecording /\ FreshSession /\ FreshBoards /\ FreshDashboard /\ EmptyStorage
    /\ lastOp = "init"
    /\ lastPayload = NoPayload
    /\ FreshPage

\* One addLog call, and the clock moves on before the next.
AppendLater ==
    /\ nextId < MaxAppends
    /\ now + 1 < DayLen
    /\ logs' = addLogs(logs, nextId, <<Info("entry")>>)
    /\ nextId' = nextId + 1
    /\ now' = now + 1
    /\ lastOp' = "addLog"
    /\ UNCHANGED <<hour12, surface, recVars, sessionVars, boardVars, dashVars,
                   storeVars, lastPayload, pageVars>>

NextSeq == AppendLater

SpecSeq == InitSeq /\ [][NextSeq]_vars

-----------------------------------------------------------------------------
(* UnifiedDashboard: platform detection effect *)

\* Bounds of the session and recording specifications
MaxEntries == 5         \* log entries created in one explored run
MaxCalls == 2           \* handler invocations awaiting a result at one time
MaxTimers == 2          \* tick timers created in one explored run
MaxTicks == 1           \* ticks counted in one explored run
MaxFetches == 1         \* board-discovery requests awaiting a response at one time
MaxDashFetches == 4     \* calls of Dashboard.fetchTrelloBoards awaiting a response at one time
MaxSessionEntries == 2  \* log entries of one mounted session in the session specification

Session(tool, config, configured, form) ==
    [tool |-> tool, config |-> config, configured |-> configured, form |-> form]

\* A plausible slip: the tier-2 records are never taken.
Unusable(item) == FALSE

\* A tier-2 record that is there and does not decode: JSON.parse throws.
Undecodable(item) == item # NoItem /\ ~Parses(item)

\* A tier-2 record that is there and decodes (try { JSON.parse } catch).
Usable(item) == item # NoItem /\ Parses(item)

\* The cookie tier: the fields of the marked platform, if all are there.
CookieConfig(ck) ==
    CASE ck["platform"] = "trello" /\ ck["apiKey"] # Absent /\ ck["token"] # Absent
                                   /\ ck["boardId"] # Absent ->
            [apiKey |-> ck["apiKey"], token |-> ck["token"], boardId |-> ck["boardId"]]
      [] ck["platform"] = "linear" /\ ck["apiKey"] # Absent
                                   /\ ck["workspaceId"] # Absent ->
            [apiKey |-> ck["apiKey"], workspaceId |-> ck["workspaceId"]]
      [] ck["platform"] = "asana" /\ ck["personalAccessToken"] # Absent
                                  /\ ck["projectId"] # Absent ->
            [personalAccessToken |-> ck["personalAccessToken"],
             projectId |-> ck["projectId"]]
      [] OTHER -> NullConfig

\* A plausible slip: durable storage is read before the navigation payload.
resolveStorageFirst(payload, linear, asana, ck, old) ==
    IF Usable(linear)
    THEN [session |-> Session("linear", Parse(linear), TRUE, old.form),
          assigned |-> TRUE,
          message |-> "Connected to Linear"]
    ELSE IF Usable(asana)
    THEN [session |-> Session("asana", Parse(asana), TRUE, old.form),
          assigned |-> TRUE,
          message |-> "Connected to Asana"]
    ELSE IF payload # NoPayload /\ payload.platform # Absent
    THEN [session |-> IF payload.config # NullConfig
                      THEN Session(payload.platform, payload.config, TRUE, old.form)
                      ELSE Session(payload.platform, old.config, old.configured, old.form),
          assigned |-> payload.config # NullConfig,
          message |-> "Connected to " \o Capitalize(payload.platform)]
    ELSE [session |-> Session(old.tool, old.config, old.configured, TRUE),
          assigned |-> FALSE,
          message |-> "Voice Manager initialized - Please configure your platform"]

\* A plausible slip: a record that does not decode ends the search, and the
\* tiers after it are not looked at.
resolveParseFatal(payload, linear, asana, ck, old) ==
    IF payload # NoPayload /\ payload.platform # Absent
    THEN [session |-> IF payload.config # NullConfig
                      THEN Session(payload.platform, payload.config, TRUE, old.form)
                      ELSE Session(payload.platform, old.config, old.configured, old.form),
          assigned |-> payload.config # NullConfig,
          message |-> "Connected to " \o Capitalize(payload.platform)]
    ELSE IF Usable(linear)
    THEN [session |-> Session("linear", Parse(linear), TRUE, old.form),
          assigned |-> TRUE,
          message |-> "Connected to Linear"]
    ELSE IF ~Undecodable(linear) /\ Usable(asana)
    THEN [session |-> Session("asana", Parse(asana), TRUE, old.form),
          assigned |-> TRUE,
          message |-> "Connected to Asana"]
    ELSE IF ~Undecodable(linear) /\ ~Undecodable(asana) /\ CookieConfig(ck) # NullConfig
    THEN [session |-> Session(ck["platform"], CookieConfig(ck), TRUE, old.form),
          assigned |-> TRUE,
          message |-> "Connected to " \o Capitalize(ck["platform"])]
    ELSE [session |-> Session(old.tool, old.config, old.configured, TRUE),
          assigned |-> FALSE,
          message |-> "Voice Manager initialized - Please configure your platform"]

\* The effect body: the session it leaves and the message it logs, from the
\* navigation payload, the tier-2 records, the cookies and the state it runs in.
resolve(payload, linear, asana, ck, old) ==
    IF payload # NoPayload /\ payload.platform # Absent
    THEN [session |-> IF payload.config # NullConfig
                      THEN Session(payload.platform, payload.config, TRUE, old.form)
                      ELSE Session(payload.platform, old.config, old.configured, old.form),
          assigned |-> payload.config # NullConfig,
          message |-> "Connected to " \o Capitalize(payload.platform)]
    ELSE IF Usable(linear)
    THEN [session |-> Session("linear", Parse(linear), TRUE, old.form),
          assigned |-> TRUE,
          message |-> "Connected to Linear"]
    ELSE IF Usable(asana)
    THEN [session |-> Session("asana", Parse(asana), TRUE, old.form),
          assigned |-> TRUE,
          message |-> "Connected to Asana"]
    ELSE IF CookieConfig(ck) # NullConfig
    THEN [session |-> Session(ck["platform"], CookieConfig(ck), TRUE, old.form),
          assigned |-> TRUE,
          message |-> "Connected to " \o Capitalize(ck["platform"])]
    ELSE [session |-> Session(old.tool, old.config, old.configured, TRUE),
          assigned |-> FALSE,
          message |-> "Voice Manager initialized - Please configure your platform"]

\* useState initial values of the session
InitialSession == Session(Absent, NullConfig, FALSE, FALSE)

CurrentSession == Session(selectedTool, platformConfig, isConfigured, showConfigForm)

-----------------------------------------------------------------------------
(* Recording: startRecording, stopRecording and the tick, on either surface *)

EnvTrelloAppKey == "appkey"         \* import.meta.env.VITE_TRELLO_APP_KEY

otherVars == <<sessionVars, boardVars, dashVars, storeVars, lastPayload, pageVars, surface>>

\* disabled={!isConfigured} on UnifiedDashboard,
\* disabled={recordingStatus === "processing"} on VoiceManagerNew
RecordButtonEnabled ==
    IF surface = UD THEN isConfigured ELSE recordingStatus # "processing"

\* A plausible slip: the button always starts.
AlwaysStart(status) == "startRecording"

\* onClick={recordingStatus === 'idle' ? startRecording : stopRecording}
RecordButtonHandler(status) ==
    IF status = "idle" THEN "startRecording" ELSE "stopRecording"

\* The platform and config the handler's closure holds when it is invoked.
ClosureTool == IF surface = UD THEN selectedTool ELSE dashPlatform
ClosureConfig == IF surface = UD THEN platformConfig ELSE NullConfig

\* A plausible slip: the config is read from the state when the audio is sent.
GatewayConfigAtSend(call) == platformConfig

\* The config stopRecording hands to sendAudioToBackend.
GatewayConfig(call) ==
    IF surface = UD THEN call.config
    ELSE IF call.tool = "trello"
         THEN [platform |-> "trello", apiKey |-> EnvTrelloAppKey,
               boardId |-> call.board, token |-> lsTrelloToken]
         ELSE NullConfig

\* The user presses the record button: the handler runs up to its first await
\* (audioRecorder.startRecording() or audioRecorder.stopRecording()).
ClickRecord ==
    /\ RecordButtonEnabled
    /\ Len(calls) < MaxCalls
    /\ LET h == RecordButtonHandler(recordingStatus) IN
        /\ calls' = Append(calls,
                [op |-> h,
                 at |-> IF h = "startRecording" THEN "acquire" ELSE "teardown",
                 tool |-> ClosureTool, config |-> ClosureConfig,
                 board |-> dashSelectedBoard])
        /\ lastOp' = h
    /\ UNCHANGED <<logVars, clockVars, recordingStatus, recordingTime,
                   recordingInterval, timers, nextTimer, streams, latestResponse, lastAnswer,
                   otherVars>>

\* AudioRecorder: startRecording() opens one more audio stream, stopRecording()
\* gives the audio of an open stream and closes it.
RecorderStarted(n) == n + 1
RecorderCanStop(n) == n > 0
RecorderStopped(n) == n - 1

Without(seq, i) == SubSeq(seq, 1, i - 1) \o SubSeq(seq, i + 1, Len(seq))

\* audioRecorder.startRecording() resolved: the rest of startRecording.
AcquireOk(i) ==
    /\ calls[i].at = "acquire"
    /\ nextId + 1 <= MaxEntries
    /\ nextTimer < MaxTimers
    /\ streams' = RecorderStarted(streams)
    /\ recordingStatus' = "recording"
    /\ recordingTime' = 0
    /\ logs' = addLogs(logs, nextId, <<Info("Listening...")>>)
    /\ nextId' = nextId + 1
    /\ nextTimer' = nextTimer + 1
    /\ timers' = timers \cup {nextTimer + 1}
    /\ recordingInterval' = nextTimer + 1
    /\ calls' = Without(calls, i)
    /\ lastOp' = "startRecording:acquired"
    /\ UNCHANGED <<clockVars, latestResponse, lastAnswer, otherVars>>

\* addLog("error", "Failed to start recording: " + error.message)
AcquireFailItems == <<Error("Failed to start recording: Permission denied")>>

\* audioRecorder.startRecording() rejected: the catch block of startRecording.
AcquireFail(i) ==
    /\ calls[i].at = "acquire"
    /\ nextId + Len(AcquireFailItems) <= MaxEntries
    /\ logs' = addLogs(logs, nextId, AcquireFailItems)
    /\ nextId' = nextId + Len(AcquireFailItems)
    /\ calls' = Without(calls, i)
    /\ lastOp' = "startRecording:failed"
    /\ UNCHANGED <<clockVars, recordingStatus, recordingTime, recordingInterval,
                   timers, nextTimer, streams, latestResponse, lastAnswer, otherVars>>

\* if (recordingInterval.current) clearInterval(recordingInterval.current)
ClearInterval(ref) == timers \ {ref}

\* A plausible slip: the two entries in the other order.
StopItemsSwapped == <<<<"voice", "Voice received", NoDetails>>, Success("Processing...")>>

\* addLog("success", `Processing...`); addLog("voice", "Voice received", {})
StopItems == <<Success("Processing..."), <<"voice", "Voice received", NoDetails>> >>

\* audioRecorder.stopRecording() resolved with the audio: stopRecording up to
\* the await of sendAudioToBackend.
TeardownOk(i) ==
    /\ calls[i].at = "teardown"
    /\ RecorderCanStop(streams)
    /\ nextId + Len(StopItems) <= MaxEntries
    /\ streams' = RecorderStopped(streams)
    /\ recordingStatus' = "idle"
    /\ timers' = ClearInterval(recordingInterval)
    /\ recordingInterval' = 0
    /\ recordingTime' = 0
    /\ logs' = addLogs(logs, nextId, StopItems)
    /\ nextId' = nextId + Len(StopItems)
    /\ calls' = [calls EXCEPT ![i].at = "gateway", ![i].config = GatewayConfig(calls[i])]
    /\ lastOp' = "stopRecording:sent"
    /\ UNCHANGED <<clockVars, nextTimer, latestResponse, lastAnswer, otherVars>>

\* audioRecorder.stopRecording() rejected: the outer catch block of stopRecording.
TeardownFail(i) ==
    /\ calls[i].at = "teardown"
    /\ nextId + 1 <= MaxEntries
    /\ logs' = addLogs(logs, nextId,
                       <<Error("Failed to stop recording: No recording in progress")>>)
    /\ nextId' = nextId + 1
    /\ recordingStatus' = "idle"
    /\ calls' = Without(calls, i)
    /\ lastOp' = "stopRecording:failed"
    /\ UNCHANGED <<clockVars, recordingTime, recordingInterval, timers, nextTimer,
                   streams, latestResponse, lastAnswer, otherVars>>

-----------------------------------------------------------------------------
(* Recording: the gateway's answer *)

MaxResults == 2         \* elements of a results sequence

ResultElems ==
    { [success |-> TRUE, operation |-> "create", task |-> "Buy milk", error |-> Absent],
      [success |-> TRUE, operation |-> "update", task |-> Absent, error |-> Absent],
      [success |-> FALSE, operation |-> Absent, task |-> "Buy milk", error |-> "boom"] }

RECURSIVE SeqsUpTo(_, _)
SeqsUpTo(S, n) ==
    IF n = 0 THEN {<<>>}
    ELSE SeqsUpTo(S, n - 1) \cup
         {Append(q, e) : q \in {r \in SeqsUpTo(S, n - 1) : Len(r) = n - 1}, e \in S}

\* What `await sendAudioToBackend(...)` and `await res.json()` can come to.
TransportFailure == [kind |-> "transport"]
UnparseableBody == [kind |-> "unparseable"]
NullBody == [kind |-> "null"]       \* the body is the JSON text null
\* A decoded body: an optional transcript and, when results is an array, its elements.
Bodies ==
    { [kind |-> "body", transcript |-> t, isArray |-> TRUE, results |-> r] :
        t \in {Absent, "add milk"}, r \in SeqsUpTo(ResultElems, MaxResults) }
    \cup { [kind |-> "body", transcript |-> t, isArray |-> FALSE, results |-> <<>>] :
        t \in {Absent, "add milk"} }
Answers == {TransportFailure, UnparseableBody, NullBody} \cup Bodies

\* `Task ${operation === "create" ? "created" : operation}` + (task ? `: ${task}` : "")
TaskMessage(r) ==
    "Task " \o (IF r.operation = "create" THEN "created"
                ELSE IF r.operation = Absent THEN "undefined" ELSE r.operation)
            \o (IF r.task # Absent THEN ": " \o r.task ELSE "")

\* `Task operation failed${task ? ` for: ${task}` : ""}${error ? ` - ${error}` : ""}`
FailureMessage(r) ==
    "Task operation failed" \o (IF r.task # Absent THEN " for: " \o r.task ELSE "")
                            \o (IF r.error # Absent THEN " - " \o r.error ELSE "")

ResultItem(r) ==
    IF r.success
    THEN <<"task", TaskMessage(r), [taskName |-> r.task, taskStatus |-> r.operation]>>
    ELSE Error(FailureMessage(r))

\* A loop over the results that gives up at the first failing element.
RECURSIVE ResultItemsUntilFailure(_)
ResultItemsUntilFailure(r) ==
    IF r = <<>> THEN <<>>
    ELSE IF ~Head(r).success THEN <<ResultItem(Head(r))>>
    ELSE <<ResultItem(Head(r))>> \o ResultItemsUntilFailure(Tail(r))

\* data.results.forEach((result) => { ... addLog ... })
ResultItems(r) == [k \in 1..Len(r) |-> ResultItem(r[k])]

\* The log calls stopRecording makes for an answer, in call order.
AnswerItems(a) ==
    CASE a.kind = "transport" -> <<Error("Failed to send audio: Failed to fetch")>>
      [] a.kind = "unparseable" -> <<Error("Failed to parse backend response as JSON")>>
      [] a.kind = "null" ->
            <<Error("Failed to send audio: Cannot read properties of null")>>
      [] a.kind = "body" ->
            (IF a.transcript # Absent
             THEN << <<"transcribed", "Transcribed: " \o a.transcript, NoDetails>> >>
             ELSE <<>>)
            \o (IF ~a.isArray THEN <<>> ELSE ResultItems(a.results))

\* The gateway call of invocation i ends with answer a: the rest of stopRecording.
GatewayDone(i, a) ==
    /\ calls[i].at = "gateway"
    /\ nextId + Len(AnswerItems(a)) <= MaxEntries
    /\ logs' = addLogs(logs, nextId, AnswerItems(a))
    /\ nextId' = nextId + Len(AnswerItems(a))
    /\ latestResponse' = IF surface = UD /\ a.kind = "body" /\ a.transcript # Absent
                         THEN a.transcript ELSE latestResponse
    /\ lastAnswer' = a
    /\ calls' = Without(calls, i)
    /\ lastOp' = "stopRecording:answered"
    /\ UNCHANGED <<clockVars, recordingStatus, recordingTime, recordingInterval,
                   timers, nextTimer, streams, otherVars>>

\* A live interval timer fires: setRecordingTime(prev => prev + 1).
Tick(t) ==
    /\ t \in timers
    /\ recordingTime < MaxTicks
    /\ recordingTime' = recordingTime + 1
    /\ lastOp' = "tick"
    /\ UNCHANGED <<logVars, clockVars, recordingStatus, recordingInterval, timers,
                   nextTimer, streams, calls, latestResponse, lastAnswer, otherVars>>

-----------------------------------------------------------------------------
(* The recording specification: a mounted surface, its session as the resolver
   left it, and the user at the record button *)

\* UnifiedDashboard after its platform detection effect has run once.
MountedUnified(payload) ==
    LET r == resolve(payload, NoItem, NoItem, NoCookies, InitialSession) IN
    /\ surface = UD
    /\ selectedTool = r.session.tool
    /\ platformConfig = r.session.config
    /\ isConfigured = r.session.configured
    /\ showConfigForm = r.session.form
    /\ showSwitchConfirm = FALSE
    /\ logs = addLogs(<<>>, 0, <<Info(r.message)>>)
    /\ nextId = 1
    /\ lastPayload = payload
    /\ FreshPage
    /\ lsTrelloToken = Absent
    /\ FreshDashboard

\* VoiceManagerNew as Dashboard renders it for Trello, with or without a board
\* and a stored token.
MountedVoiceManager ==
    /\ surface = VM
    /\ FreshSession /\ FreshLog
    /\ dashPlatform = "trello"
    /\ dashSelectedBoard \in {Absent, "b1"}
    /\ FreshDashBoards
    /\ lsTrelloToken = "t1"
    /\ lastPayload = NoPayload
    /\ FreshPage

InitRec ==
    /\ now = DayLen - 1
    /\ hour12 = TRUE
    /\ FreshRecording /\ FreshBoards
    /\ lsLinear = NoItem /\ lsAsana = NoItem /\ cookies = NoCookies
    /\ lastOp = "mount"
    /\ \/ MountedUnified(NoPayload)
       \/ MountedUnified([platform |-> "linear", config |-> LinearCfg])
       \/ MountedVoiceManager

NextRec ==
    \/ ClickRecord
    \/ \E i \in 1..Len(calls) : AcquireOk(i)
    \/ \E i \in 1..Len(calls) : AcquireFail(i)
    \/ \E i \in 1..Len(calls) : TeardownOk(i)
    \/ \E i \in 1..Len(calls) : TeardownFail(i)
    \/ \E i \in 1..Len(calls), a \in Answers : GatewayDone(i, a)
    \/ \E t \in timers : Tick(t)
    \/ TimePasses

SpecRec == InitRec /\ [][NextRec]_vars

-----------------------------------------------------------------------------
(* UnifiedDashboard: the session operations *)

\* location.state as the pages of the application hand it over:
\* AppSelection / TrelloAuth ({platform: 'trello', token}) and ConfigureApp
\* ({platform, config} with every required field filled in).
Payloads ==
    { NoPayload,
      [platform |-> "trello", config |-> NullConfig],
      [platform |-> "linear", config |-> LinearCfg],
      [platform |-> "asana", config |-> AsanaCfg] }

\* What the configuration form can hold for a platform when it is submitted.
FormConfigs(tool) ==
    CASE tool = "trello" ->
            { TrelloCfg, [apiKey |-> "k1", token |-> "t1", boardId |-> Absent] }
      [] tool = "linear" ->
            { LinearCfg, [apiKey |-> "k2", workspaceId |-> "w2"],
              [apiKey |-> Absent, workspaceId |-> "w2"] }
      [] tool = "asana" ->
            { AsanaCfg, [personalAccessToken |-> "p1", projectId |-> Absent] }
      [] OTHER -> {}

\* The fields ConfigurationForm requires of a platform's config.
RequiredFields(tool) ==
    CASE tool = "trello" -> {"apiKey", "token", "boardId"}
      [] tool = "linear" -> {"apiKey", "workspaceId"}
      [] tool = "asana" -> {"personalAccessToken", "projectId"}
      [] OTHER -> {}

\* A config is there and holds every required field of the platform, non-empty.
CompleteFor(tool, c) ==
    /\ tool # Absent
    /\ c # NullConfig
    /\ RequiredFields(tool) \subseteq DOMAIN c
    /\ \A f \in RequiredFields(tool) : c[f] # Absent

\* A plausible slip: the form is handed on without looking at its fields.
CompleteUnchecked(c) == TRUE

\* Every field of the config is a non-empty string.
Complete(c) == \A f \in DOMAIN c : c[f] # Absent

\* Cookies.set for every field of the config and for the platform marker.
CookiesWith(ck, tool, c) ==
    [n \in CookieNames |->
        IF n = "platform" THEN tool
        ELSE IF n \in DOMAIN c THEN c[n]
        ELSE ck[n]]

\* The board-discovery effect runs for this platform and config.
Discoverable(tool, c) ==
    tool = "trello" /\ c # NullConfig /\ "token" \in DOMAIN c /\ "apiKey" \in DOMAIN c

\* useEffect(fetchBoards, [selectedTool, platformConfig]) after a handler that
\* left the session (tool, c): a request goes out, or the list is emptied.
BoardsEffect(rerun, tool, c) ==
    IF ~rerun THEN UNCHANGED <<trelloBoards, trelloBoardError, boardFetches, lastFetch>>
    ELSE IF Discoverable(tool, c)
    THEN /\ Len(boardFetches) < MaxFetches
         /\ boardFetches' = Append(boardFetches, [apiKey |-> c.apiKey, token |-> c.token])
         /\ UNCHANGED <<trelloBoards, trelloBoardError, lastFetch>>
    ELSE /\ trelloBoards' = <<>>
         /\ trelloBoardError' = Absent
         /\ UNCHANGED <<boardFetches, lastFetch>>

\* The component is on screen: it has mounted and no handler has navigated away.
Mounted == lastOp \notin {"init", "confirmSwitchApp", "logout", "configureApp",
                          "configureApp:prefill", "configureApp:refused"}

recUnchanged == UNCHANGED <<recVars, surface>>

\* Dashboard (pages): the platform its own effect on [location] leaves. A Trello
\* token found by either of its two reads selects Trello; with nothing found it
\* navigates to the platform selection and keeps the platform it had.
DashboardPlatform(payload, linear, asana, trelloToken, old) ==
    IF payload # NoPayload /\ payload.platform # Absent THEN payload.platform
    ELSE IF linear # NoItem THEN "linear"
    ELSE IF asana # NoItem THEN "asana"
    ELSE IF trelloToken # Absent THEN "trello"
    ELSE old

\* A run of the effect that logs nothing.
ResolveItemsNone(r) == <<>>

\* The addLog("info", ...) of the branch the effect takes.
ResolveItems(r) == <<Info(r.message)>>

\* The token Dashboard's second effect and fetchTrelloBoards fall back on:
\* getTrelloToken(), or the token cookie.
DashToken == IF lsTrelloToken # Absent THEN lsTrelloToken ELSE cookies["token"]

\* The calls of fetchTrelloBoards Dashboard's two effects make when the first
\* one runs on the payload with the platform old on screen: one from the first
\* effect when it finds the Trello token, one from the second effect when it
\* runs on Trello, one more when the platform has just become Trello.
DashCalls(payload, old) ==
    LET new == DashboardPlatform(payload, lsLinear, lsAsana, lsTrelloToken, old) IN
      (IF ~(payload # NoPayload /\ payload.platform # Absent)
            /\ lsLinear = NoItem /\ lsAsana = NoItem /\ lsTrelloToken # Absent
       THEN 1 ELSE 0)
    + (IF old = "trello" THEN 1 ELSE 0)
    + (IF new = "trello" /\ old # "trello" THEN 1 ELSE 0)

\* The start of fetchTrelloBoards, n times over: the error is cleared and the
\* requests go out, or key or token is missing and the list is emptied.
DashDiscover(n, boards, error, pending) ==
    IF n = 0
    THEN dashBoards' = boards /\ dashBoardError' = error /\ dashFetches' = pending
    ELSE IF EnvTrelloAppKey = Absent \/ DashToken = Absent
    THEN /\ dashBoards' = <<>>
         /\ dashBoardError' = "Missing Trello API key or token. Please re-authorize."
         /\ dashFetches' = pending
    ELSE /\ pending + n <= MaxDashFetches
         /\ dashBoards' = boards
         /\ dashBoardError' = Absent
         /\ dashFetches' = pending + n

\* The effect's result is written to the session.
Resolved(payload, from) ==
    LET r == resolve(payload, lsLinear, lsAsana, cookies, from) IN
    /\ selectedTool' = r.session.tool
    /\ platformConfig' = r.session.config
    /\ isConfigured' = r.session.configured
    /\ showConfigForm' = r.session.form
    /\ lastPayload' = payload
    /\ UNCHANGED <<clockVars, storeVars, dashSelectedBoard>>

\* The component mounts (first load, reload, return from another page): every
\* useState starts over and the two effects run; a tick timer of an earlier
\* mount is not cancelled, answers to an earlier mount's requests are dropped.
MountAs(payload, op) ==
    LET r == resolve(payload, lsLinear, lsAsana, cookies, InitialSession) IN
    /\ calls = <<>>
    /\ recordingStatus' = "idle"
    /\ recordingTime' = 0
    /\ recordingInterval' = 0
    /\ latestResponse' = "How can I help you today?"
    /\ lastAnswer' = NoAnswer
    /\ formData' = EmptyForm
    /\ uncaught' = FALSE
    /\ showSwitchConfirm' = FALSE
    /\ logs' = addLogs(<<>>, 0, ResolveItems(r))
    /\ nextId' = Len(ResolveItems(r))
    /\ Resolved(payload, InitialSession)
    /\ dashPlatform' = DashboardPlatform(payload, lsLinear, lsAsana, lsTrelloToken, Absent)
    /\ DashDiscover(DashCalls(payload, Absent), <<>>, Absent, 0)
    /\ lastFetch' = NoFetch
    /\ trelloBoards' = <<>>
    /\ trelloBoardError' = Absent
    /\ selectedBoardId' = Absent
    /\ boardFetches' = IF Discoverable(r.session.tool, r.session.config)
                       THEN <<[apiKey |-> r.session.config.apiKey,
                               token |-> r.session.config.token]>>
                       ELSE <<>>
    /\ lastOp' = op
    /\ UNCHANGED <<timers, nextTimer, streams, calls, surface>>

Mount(payload) == MountAs(payload, "mount")

\* The location changes under the mounted component (the URL's hash changes,
\* or the user moves between two history entries of the route): the effect
\* runs again on the state as it is.
LocationChange(payload) ==
    LET r == resolve(payload, lsLinear, lsAsana, cookies, CurrentSession) IN
    /\ Mounted
    /\ nextId + Len(ResolveItems(r)) <= MaxSessionEntries
    /\ logs' = addLogs(logs, nextId, ResolveItems(r))
    /\ nextId' = nextId + Len(ResolveItems(r))
    /\ Resolved(payload, CurrentSession)
    /\ dashPlatform' = DashboardPlatform(payload, lsLinear, lsAsana, lsTrelloToken,
                                         dashPlatform)
    /\ DashDiscover(DashCalls(payload, dashPlatform), dashBoards, dashBoardError,
                    dashFetches)
    /\ BoardsEffect(r.session.tool # selectedTool \/ r.assigned,
                    r.session.tool, r.session.config)
    /\ lastOp' = "locationChange"
    /\ UNCHANGED <<showSwitchConfirm, selectedBoardId, pageVars>>
    /\ recUnchanged

\* The configuration modal is on screen: showConfigForm && selectedTool.
FormShown == Mounted /\ showConfigForm /\ selectedTool # Absent

\* A plausible slip: the record is kept only if none was stored yet.
RecordIfNew(item, key, tool, c) ==
    IF tool = key THEN (IF item = NoItem THEN Stringify(c) ELSE NoItem) ELSE item

\* localStorage.setItem of the platforms that keep a durable record.
RecordAfterSave(item, key, tool, c) == IF tool = key THEN Stringify(c) ELSE item

\* The session and what is stored for it.
Persisted ==
    [session |-> CurrentSession, linear |-> lsLinear, asana |-> lsAsana,
     cookies |-> cookies]

\* What a save of the complete config c for the platform leaves of st: the
\* setters of handleConfigSave, the platform's record and the cookies.
Saved(tool, c, st) ==
    [session |-> Session(tool, c, TRUE, FALSE),
     linear |-> RecordAfterSave(st.linear, "linear", tool, c),
     asana |-> RecordAfterSave(st.asana, "asana", tool, c),
     cookies |-> CookiesWith(st.cookies, tool, c)]

\* ConfigurationForm.handleSubmit with the form holding c, and handleConfigSave
\* through onConfigSave when every field is filled in.
SaveConfig(c) ==
    /\ FormShown
    /\ c \in FormConfigs(selectedTool)
    /\ IF Complete(c)
       THEN /\ nextId + 1 <= MaxSessionEntries
            /\ platformConfig' = Saved(selectedTool, c, Persisted).session.config
            /\ isConfigured' = Saved(selectedTool, c, Persisted).session.configured
            /\ showConfigForm' = Saved(selectedTool, c, Persisted).session.form
            /\ logs' = addLogs(logs, nextId,
                     <<Success(Capitalize(selectedTool) \o " configuration saved successfully")>>)
            /\ nextId' = nextId + 1
            /\ lsLinear' = Saved(selectedTool, c, Persisted).linear
            /\ lsAsana' = Saved(selectedTool, c, Persisted).asana
            /\ cookies' = Saved(selectedTool, c, Persisted).cookies
            /\ BoardsEffect(TRUE, selectedTool, c)
       ELSE UNCHANGED <<platformConfig, isConfigured, showConfigForm, logVars,
                        lsLinear, lsAsana, cookies, trelloBoards, trelloBoardError,
                        boardFetches, lastFetch>>
    /\ lastOp' = IF CompleteFor(selectedTool, c) THEN "save" ELSE "save:refused"
    /\ UNCHANGED <<clockVars, selectedTool, showSwitchConfirm, selectedBoardId,
                   dashVars, lsTrelloToken, lastPayload, pageVars>>
    /\ recUnchanged

\* A plausible slip: the cancel always drops the platform.
ToolDropped(tool, configured) == Absent

\* if (!isConfigured) setSelectedTool(null)
ToolAfterCancel(tool, configured) == IF ~configured THEN Absent ELSE tool

\* handleConfigCancel
handleConfigCancel ==
    /\ FormShown
    /\ showConfigForm' = FALSE
    /\ selectedTool' = ToolAfterCancel(selectedTool, isConfigured)
    /\ BoardsEffect(~isConfigured, Absent, platformConfig)
    /\ lastOp' = "cancel"
    /\ UNCHANGED <<logVars, clockVars, platformConfig, isConfigured, showSwitchConfirm,
                   selectedBoardId, dashVars, storeVars, lastPayload, pageVars>>
    /\ recUnchanged

\* The "Edit Config" button of a configured Linear or Asana session.
EditConfig ==
    /\ Mounted
    /\ selectedTool \in {"linear", "asana"} /\ isConfigured
    /\ ~showConfigForm
    /\ showConfigForm' = TRUE
    /\ lastOp' = "editConfig"
    /\ UNCHANGED <<logVars, clockVars, selectedTool, platformConfig, isConfigured,
                   showSwitchConfirm, boardVars, dashVars, storeVars, lastPayload, pageVars>>
    /\ recUnchanged

\* { ...platformConfig, boardId: value }
\* A plausible slip: the new config holds the board alone.
OnlyBoard(c, value) == [boardId |-> value]

\* { ...platformConfig, boardId: value }
WithBoard(c, value) ==
    [f \in DOMAIN c \cup {"boardId"} |-> IF f = "boardId" THEN value ELSE c[f]]

\* The config and the cookies handleBoardSelect leaves for a session (tool, c).
BoardSelected(tool, c, ck, value) ==
    IF Discoverable(tool, c)
    THEN [config |-> WithBoard(c, value), cookies |-> [ck EXCEPT !["boardId"] = value]]
    ELSE [config |-> c, cookies |-> ck]

BoardIds(boards) == { boards[i] : i \in 1..Len(boards) }

\* handleBoardSelect, offered while Trello is configured and boards are listed.
handleBoardSelect(value) ==
    /\ Mounted
    /\ selectedTool = "trello" /\ isConfigured /\ Len(trelloBoards) > 0
    /\ value \in BoardIds(trelloBoards)
    /\ selectedBoardId' = value
    /\ platformConfig' = BoardSelected(selectedTool, platformConfig, cookies, value).config
    /\ cookies' = BoardSelected(selectedTool, platformConfig, cookies, value).cookies
    /\ BoardsEffect(Discoverable(selectedTool, platformConfig), selectedTool,
                    WithBoard(platformConfig, value))
    /\ lastOp' = "selectBoard"
    /\ UNCHANGED <<logVars, clockVars, selectedTool, isConfigured, showConfigForm,
                   showSwitchConfirm, dashVars, lsLinear, lsAsana, lsTrelloToken,
                   lastPayload, pageVars>>
    /\ recUnchanged

\* handleSwitchApp
handleSwitchApp ==
    /\ Mounted
    /\ ~showSwitchConfirm
    /\ showSwitchConfirm' = TRUE
    /\ lastOp' = "switchApp"
    /\ UNCHANGED <<logVars, clockVars, selectedTool, platformConfig, isConfigured,
                   showConfigForm, boardVars, dashVars, storeVars, lastPayload, pageVars>>
    /\ recUnchanged

\* cancelSwitchApp
cancelSwitchApp ==
    /\ Mounted
    /\ showSwitchConfirm
    /\ showSwitchConfirm' = FALSE
    /\ lastOp' = "cancelSwitch"
    /\ UNCHANGED <<logVars, clockVars, selectedTool, platformConfig, isConfigured,
                   showConfigForm, boardVars, dashVars, storeVars, lastPayload, pageVars>>
    /\ recUnchanged

\* A plausible slip: the switch forgets the config it held.
SwitchedKeepingConfig(old) == Session(Absent, old.config, FALSE, old.form)

\* The session the four setters of confirmSwitchApp leave, in one batch.
Switched(old) == Session(Absent, NullConfig, FALSE, old.form)

\* A plausible slip: the switch clears the tier-2 record as well.
RecordDropped(item) == NoItem

\* "Only clear in-memory state and cookies, NOT localStorage configs"
RecordAfterSwitch(item) == item

\* confirmSwitchApp: the cookies go, the session is cleared, one entry is
\* logged and the handler navigates to the platform selection.
confirmSwitchApp ==
    /\ Mounted
    /\ showSwitchConfirm
    /\ nextId + 1 <= MaxSessionEntries
    /\ cookies' = NoCookies
    /\ selectedTool' = Switched(CurrentSession).tool
    /\ isConfigured' = Switched(CurrentSession).configured
    /\ platformConfig' = Switched(CurrentSession).config
    /\ showConfigForm' = Switched(CurrentSession).form
    /\ showSwitchConfirm' = FALSE
    /\ logs' = addLogs(logs, nextId, <<Info("Switched to different app")>>)
    /\ nextId' = nextId + 1
    /\ lsLinear' = RecordAfterSwitch(lsLinear)
    /\ lsAsana' = RecordAfterSwitch(lsAsana)
    /\ lastOp' = "confirmSwitchApp"
    /\ UNCHANGED <<clockVars, boardVars, dashVars, lsTrelloToken, lastPayload, pageVars>>
    /\ recUnchanged

\* What the board-discovery request can come back with.
FetchOutcomes ==
    { [kind |-> "boards", boards |-> <<"b1", "b2">>, message |-> Absent],
      [kind |-> "boards", boards |-> <<>>, message |-> Absent],
      [kind |-> "message", boards |-> <<>>, message |-> "invalid token"],
      [kind |-> "other", boards |-> <<>>, message |-> Absent],
      [kind |-> "throw", boards |-> <<>>, message |-> "Failed to fetch"] }

BoardErrorOf(o) ==
    CASE o.kind = "boards" -> Absent
      [] o.kind = "message" -> o.message
      [] o.kind = "other" -> "Unknown error fetching boards"
      [] OTHER -> IF o.message # Absent THEN o.message
                  ELSE "Failed to fetch Trello boards"

\* fetchBoards after its await: the response of request i is written to the
\* board list; a component that is gone takes no state.
FetchDone(i, o) ==
    /\ i \in 1..Len(boardFetches)
    /\ boardFetches' = Without(boardFetches, i)
    /\ IF Mounted
       THEN /\ trelloBoards' = o.boards
            /\ trelloBoardError' = BoardErrorOf(o)
            /\ lastFetch' = [kind |-> "answered", on |-> "fetchBoards", outcome |-> o]
       ELSE UNCHANGED <<trelloBoards, trelloBoardError, lastFetch>>
    /\ UNCHANGED <<logVars, clockVars, sessionVars, selectedBoardId, dashVars,
                   storeVars, lastOp, lastPayload, pageVars>>
    /\ recUnchanged

\* The message Dashboard.fetchTrelloBoards keeps of a response that is no list:
\* boardsData.message || 'Failed to fetch Trello boards', or err.message.
DashErrorOf(o) ==
    IF o.message # Absent THEN o.message ELSE "Failed to fetch Trello boards"

\* Dashboard.fetchTrelloBoards after its await: a list is written to the boards
\* and its first board selected; anything else is written to the error only.
DashFetchDone(o) ==
    /\ dashFetches > 0
    /\ dashFetches' = dashFetches - 1
    /\ IF ~Mounted
       THEN UNCHANGED <<dashBoards, dashSelectedBoard, dashBoardError, lastFetch>>
       ELSE /\ lastFetch' = [kind |-> "answered", on |-> "fetchTrelloBoards",
                             outcome |-> o]
            /\ IF o.kind = "boards"
               THEN /\ dashBoards' = o.boards
                    /\ dashSelectedBoard' = IF Len(o.boards) > 0 THEN o.boards[1]
                                            ELSE dashSelectedBoard
                    /\ UNCHANGED dashBoardError
               ELSE /\ dashBoardError' = DashErrorOf(o)
                    /\ UNCHANGED <<dashBoards, dashSelectedBoard>>
    /\ UNCHANGED <<logVars, clockVars, sessionVars, trelloBoards, selectedBoardId,
                   trelloBoardError, boardFetches, dashPlatform, storeVars, lastOp,
                   lastPayload, pageVars>>
    /\ recUnchanged

\* The record ConfigureApp's prefill effect reads for the page's appId.
SavedFor(appId) ==
    IF appId = "linear" THEN lsLinear
    ELSE IF appId = "asana" THEN lsAsana
    ELSE NoItem

\* ConfigureApp mounts for appId and its prefill effect runs:
\* `if (saved) setFormData(JSON.parse(saved))`, with nothing around JSON.parse
\* to catch what it throws.
ConfigureAppPrefill(appId) ==
    /\ ~Mounted
    /\ ~uncaught
    /\ formData' = IF SavedFor(appId) # NoItem /\ Parses(SavedFor(appId))
                   THEN Parse(SavedFor(appId)) ELSE EmptyForm
    /\ uncaught' = (SavedFor(appId) # NoItem /\ ~Parses(SavedFor(appId)))
    /\ lastOp' = "configureApp:prefill"
    /\ UNCHANGED <<logVars, clockVars, sessionVars, boardVars, dashVars, storeVars,
                   lastPayload>>
    /\ recUnchanged

\* A plausible slip: the submit does not look at the fields.
NoneMissing(app, form) == {}

\* currentApp.fields.filter(field => field.required && !formData[field.name])
MissingFields(app, form) ==
    { f \in RequiredFields(app) : f \notin DOMAIN form \/ form[f] = Absent }

\* ConfigureApp.handleSubmit on the page of app with the form holding c: with a
\* required field missing it alerts and returns; otherwise the record of the
\* platform is written and the navigation to the dashboard is scheduled.
ConfigureAppSubmitForm(app, c) ==
    /\ ~Mounted
    /\ ~uncaught
    /\ app \in {"linear", "asana"}
    /\ formData' = c
    /\ IF MissingFields(app, c) # {}
       THEN /\ UNCHANGED <<lsLinear, lsAsana>>
            /\ lastOp' = "configureApp:refused"
       ELSE /\ lsLinear' = IF app = "linear" THEN Stringify(c) ELSE lsLinear
            /\ lsAsana' = IF app = "asana" THEN Stringify(c) ELSE lsAsana
            /\ lastOp' = "configureApp"
    /\ UNCHANGED <<logVars, clockVars, sessionVars, boardVars, dashVars,
                   lsTrelloToken, cookies, lastPayload, uncaught>>
    /\ recUnchanged

\* The submit with every required field filled in.
ConfigureAppSubmit(app) ==
    ConfigureAppSubmitForm(app, IF app = "linear" THEN LinearCfg ELSE AsanaCfg)

\* navigate('/dashboard', { state: { platform: appId, config: formData } })
Handoff(app, form) == [platform |-> app, config |-> form]

\* The timer of an accepted submit fires: the dashboard opens on the handoff.
ConfigureAppHandoff(app) ==
    /\ lastOp = "configureApp"
    /\ MissingFields(app, formData) = {}
    /\ MountAs(Handoff(app, formData), "handoff")

\* clearTrelloToken() of lib/supabase drops the stored Trello token; whether it
\* also drops the token cookie is not in the sources, so both are followed.
TokenCleared(ck) == {ck, [ck EXCEPT !["token"] = Absent]}

\* Dashboard.handleLogout, offered on the Trello view of the page.
handleLogout ==
    /\ Mounted
    /\ dashPlatform = "trello"
    /\ lsTrelloToken' = Absent
    /\ cookies' \in TokenCleared(cookies)
    /\ lsLinear' = NoItem
    /\ lsAsana' = NoItem
    /\ lastOp' = "logout"
    /\ UNCHANGED <<logVars, clockVars, sessionVars, boardVars, dashVars,
                   lastPayload, pageVars>>
    /\ recUnchanged

InitCfg ==
    /\ now = 0
    /\ hour12 = TRUE
    /\ surface = UD
    /\ FreshLog /\ FreshRecording /\ FreshSession /\ FreshBoards /\ FreshDashboard
    /\ lsLinear \in {NoItem, Garbage}
    /\ lsAsana \in {NoItem, Garbage}
    /\ lsTrelloToken = "t1"
    /\ cookies \in {NoCookies, CookiesWith(NoCookies, "trello", TrelloCfg)}
    /\ lastOp = "init"
    /\ lastPayload = NoPayload
    /\ FreshPage

\* The answers to Dashboard's own board requests touch nothing of the session;
\* they are followed in SpecTier.
NextCfg ==
    \/ \E p \in Payloads : Mount(p)
    \/ \E p \in Payloads : LocationChange(p)
    \/ \E c \in FormConfigs(selectedTool) : SaveConfig(c)
    \/ handleConfigCancel
    \/ EditConfig
    \/ \E v \in BoardIds(trelloBoards) : handleBoardSelect(v)
    \/ handleSwitchApp
    \/ cancelSwitchApp
    \/ confirmSwitchApp
    \/ \E i \in 1..Len(boardFetches), o \in FetchOutcomes : FetchDone(i, o)
    \/ \E app \in {"linear", "asana"} : ConfigureAppPrefill(app)
    \/ \E app \in {"linear", "asana"} : ConfigureAppSubmit(app)
    \/ handleLogout

SpecCfg == InitCfg /\ [][NextCfg]_vars

-----------------------------------------------------------------------------
(* The resolver over what the browser may hold when the page is opened *)

\* Cookie jars the resolver can meet: the ones the form writes, and jars with
\* the platform marker left but a field gone (removed in the browser, or
\* written by an earlier version).
StoredCookies ==
    { NoCookies,
      CookiesWith(NoCookies, "trello", TrelloCfg),
      CookiesWith(NoCookies, "trello", [apiKey |-> "k1", token |-> "t1"]),
      CookiesWith(NoCookies, "linear", LinearCfg),
      CookiesWith(NoCookies, "linear", [apiKey |-> "k1"]),
      CookiesWith(NoCookies, "asana", AsanaCfg),
      CookiesWith(NoCookies, "asana", [personalAccessToken |-> "p1"]) }

InitTier ==
    /\ now = 0
    /\ hour12 = TRUE
    /\ surface = UD
    /\ FreshLog /\ FreshRecording /\ FreshSession /\ FreshBoards /\ FreshDashboard
    /\ lsLinear \in {NoItem, Garbage, Stringify(LinearCfg)}
    /\ lsAsana \in {NoItem, Garbage, Stringify(AsanaCfg)}
    /\ lsTrelloToken = "t1"
    /\ cookies \in StoredCookies
    /\ lastOp = "init"
    /\ lastPayload = NoPayload
    /\ FreshPage

NextTier ==
    \/ \E p \in Payloads : Mount(p)
    \/ \E p \in Payloads : LocationChange(p)
    \/ \E i \in 1..Len(boardFetches), o \in FetchOutcomes : FetchDone(i, o)
    \/ \E o \in FetchOutcomes : DashFetchDone(o)

SpecTier == InitTier /\ [][NextTier]_vars

\* UnifiedDashboard mounted on the Trello cookies with its boards listed, the
\* user at the record button and at the board select: the config can change
\* while a stop is under way.
ListedBoards == [kind |-> "boards", boards |-> <<"b1", "b2">>, message |-> Absent]

InitStop ==
    LET ck == CookiesWith(NoCookies, "trello", TrelloCfg)
        r == resolve(NoPayload, NoItem, NoItem, ck, InitialSession) IN
    /\ now = 0
    /\ hour12 = TRUE
    /\ surface = UD
    /\ FreshRecording /\ FreshDashboard /\ FreshPage
    /\ selectedTool = r.session.tool
    /\ platformConfig = r.session.config
    /\ isConfigured = r.session.configured
    /\ showConfigForm = r.session.form
    /\ showSwitchConfirm = FALSE
    /\ logs = addLogs(<<>>, 0, ResolveItems(r))
    /\ nextId = Len(ResolveItems(r))
    /\ trelloBoards = ListedBoards.boards
    /\ trelloBoardError = BoardErrorOf(ListedBoards)
    /\ selectedBoardId = Absent
    /\ boardFetches = <<>>
    /\ lastFetch = [kind |-> "answered", on |-> "fetchBoards", outcome |-> ListedBoards]
    /\ lsLinear = NoItem
    /\ lsAsana = NoItem
    /\ lsTrelloToken = Absent
    /\ cookies = ck
    /\ lastOp = "mount"
    /\ lastPayload = NoPayload

NextStop ==
    \/ \E v \in BoardIds(trelloBoards) : handleBoardSelect(v)
    \/ ClickRecord
    \/ \E i \in 1..Len(calls) : AcquireOk(i)
    \/ \E i \in 1..Len(calls) : AcquireFail(i)
    \/ \E i \in 1..Len(calls) : TeardownOk(i)
    \/ \E i \in 1..Len(calls) : TeardownFail(i)
    \/ \E i \in 1..Len(calls), a \in Answers : GatewayDone(i, a)
    \/ \E t \in timers : Tick(t)

SpecStop == InitStop /\ [][NextStop]_vars

\* What the form of the stand-alone page can hold at a submit.
PageForms(app) ==
    IF app = "linear"
    THEN { LinearCfg, [apiKey |-> "k2", workspaceId |-> "w2"], [apiKey |-> "k1"],
           [apiKey |-> Absent, workspaceId |-> "w2"], EmptyForm }
    ELSE { AsanaCfg, [personalAccessToken |-> "p1", projectId |-> Absent], EmptyForm }

\* The stand-alone configuration page and the dashboard it hands over to.
InitPage == InitTier

NextPage ==
    \/ \E app \in {"linear", "asana"} : ConfigureAppPrefill(app)
    \/ \E app \in {"linear", "asana"} : \E c \in PageForms(app) : ConfigureAppSubmitForm(app, c)
    \/ \E app \in {"linear", "asana"} : ConfigureAppHandoff(app)
    \/ Mount(NoPayload)
    \/ handleSwitchApp
    \/ confirmSwitchApp

SpecPage == InitPage /\ [][NextPage]_vars

-----------------------------------------------------------------------------
(* Claims about the activity log *)

Key(i) == TimeKey(logs[i].timestamp)

\* C1: after every addLog call the log holds at most 50 entries and is sorted
\* newest-first (descending) by the key the comparator reads from the timestamp.
C1_BoundedAndSorted ==
    /\ Len(logs) <= LogCapacity
    /\ \A i \in 1..(Len(logs) - 1) : Key(i) >= Key(i + 1)

\* More than 50 appends were made, the last of them after midnight while entries
\* from before midnight are still retained.
C1_Witness ==
    /\ lastOp = "addLog"
    /\ nextId > LogCapacity
    /\ Len(logs) = LogCapacity
    /\ \E i \in 1..Len(logs) : logs[i].id = nextId /\ i > 1 /\ Key(i) < Key(1)

-----------------------------------------------------------------------------
(* Claims about the recording session *)

GatewayOutstanding == \E i \in 1..Len(calls) : calls[i].at = "gateway"
AcquisitionPending == \E i \in 1..Len(calls) : calls[i].at = "acquire"

\* C2: after a stop the state is processing for as long as the gateway call is
\* outstanding, and idle only once the answer has been handled.
C2_ProcessingWhileOutstanding ==
    GatewayOutstanding => recordingStatus = "processing"

\* The session is configured: the flag on UnifiedDashboard; on VoiceManagerNew,
\* which keeps no flag, the Trello config it sends is complete.
SurfaceConfigured ==
    IF surface = UD THEN isConfigured
    ELSE /\ dashPlatform = "trello"
         /\ EnvTrelloAppKey # Absent
         /\ dashSelectedBoard # Absent
         /\ lsTrelloToken # Absent

\* C3: while the session is not configured no start is accepted: no device
\* acquisition is pending and the state has not left idle, on either surface.
C3_NoStartUnconfigured ==
    ~SurfaceConfigured => ~AcquisitionPending /\ recordingStatus = "idle"

\* C4: a start is refused while another transition is in flight: an acquisition
\* is never pending beside another pending acquisition or an unanswered gateway
\* call, and there is never more than one tick timer.
C4_StartRefusedInFlight ==
    /\ \A i \in 1..Len(calls) : calls[i].at = "acquire" => Len(calls) = 1
    /\ Cardinality(timers) <= 1

\* C5: the record button fires a transition only from the state it originates
\* from: stopRecording is entered only in recording (never in idle), and
\* startRecording only in idle (never in recording or processing).
C5_TransitionsFromOrigin ==
    [][Len(calls') > Len(calls) =>
         LET c == calls'[Len(calls')] IN
         /\ c.op = "startRecording" => recordingStatus = "idle"
         /\ c.op = "stopRecording" => recordingStatus = "recording"]_vars

\* Both handlers have been entered: a stop is awaiting the device after a start
\* went through.
C5_Witness ==
    /\ lastOp = "stopRecording"
    /\ recordingStatus = "recording"
    /\ \E i \in 1..Len(calls) : calls[i].op = "stopRecording" /\ calls[i].at = "teardown"
    /\ \E k \in 1..Len(logs) : logs[k].message = "Listening..."

\* C6: a tick timer is live only while the state is recording, and the handle
\* is cleared outside it: every exit from recording cancels the timer.
C6_TickOnlyWhileRecording ==
    recordingStatus # "recording" => timers = {} /\ recordingInterval = 0

-----------------------------------------------------------------------------
(* Claims about the resolved session *)

C8_SwitchClearsTogether ==
    lastOp = "confirmSwitchApp" =>
        /\ selectedTool = Absent
        /\ ~isConfigured
        /\ platformConfig = NullConfig

\* The switch was confirmed in a session that had been configured for Linear
\* from the navigation payload.
C8_Witness ==
    /\ lastOp = "confirmSwitchApp"
    /\ lastPayload = [platform |-> "linear", config |-> LinearCfg]
    /\ Len(logs) = 2
    /\ \E k \in 1..Len(logs) : logs[k].message = "Connected to Linear"
    /\ \E k \in 1..Len(logs) : logs[k].message = "Switched to different app"

JustResolved == lastOp \in {"mount", "locationChange"}

\* C9: when the navigation payload names a platform, the resolver selects that
\* platform, in UnifiedDashboard's effect and in Dashboard's, whatever the
\* tier-2 records and the cookies hold.
C9_PayloadPlatformWins ==
    JustResolved /\ lastPayload # NoPayload =>
        /\ selectedTool = lastPayload.platform
        /\ dashPlatform = lastPayload.platform

\* The payload named Asana while the tier-2 record of Linear was stored and
\* usable.
C9_Witness ==
    /\ JustResolved
    /\ lastPayload = [platform |-> "asana", config |-> AsanaCfg]
    /\ Usable(lsLinear)
    /\ selectedTool = "asana"

\* C10: the session a run of the resolver leaves is the one the same payload
\* and the same storage give from the pristine state: platform, config and
\* isConfigured do not depend on what earlier runs or operations left.
C10_ResolveDeterministic ==
    JustResolved =>
        LET r == resolve(lastPayload, lsLinear, lsAsana, cookies, InitialSession).session IN
        /\ selectedTool = r.tool
        /\ platformConfig = r.config
        /\ isConfigured = r.configured

-----------------------------------------------------------------------------
(* Claims about save *)

\* C11: a save whose form leaves a required field of the platform empty changes
\* nothing: the session, the tier-2 records and every cookie are after the step
\* what they were before it, and the log has no new entry.
C11_IncompleteSaveChangesNothing ==
    [][lastOp' = "save:refused" =>
         UNCHANGED <<selectedTool, platformConfig, isConfigured, showConfigForm,
                     lsLinear, lsAsana, cookies, logs, nextId>>]_vars

\* A form with an empty field was submitted for Linear while the session was
\* configured, and the form is still shown.
C11_Witness ==
    /\ lastOp = "save:refused"
    /\ selectedTool = "linear"
    /\ isConfigured
    /\ showConfigForm

-----------------------------------------------------------------------------
(* Claims about the gateway's answer *)

\* The log entries the step has created.
NewEntries == { logs'[j] : j \in { i \in 1..Len(logs') : logs'[i].id > nextId } }

\* The step is the handling of a gateway answer that logs the message.
AnsweredWith(message) ==
    /\ lastOp' = "stopRecording:answered"
    /\ \E e \in NewEntries : e.message = message

\* C13: a gateway body that cannot be parsed gives exactly one log entry, an
\* error, no transcribed or task entry, leaves the latest response as it was
\* and the recording state at idle.
C13_UnparseableBody ==
    [][AnsweredWith("Failed to parse backend response as JSON") =>
         /\ Cardinality(NewEntries) = 1
         /\ \A e \in NewEntries : e.type = "error"
         /\ latestResponse' = latestResponse
         /\ recordingStatus' = "idle"]_vars

\* C14: a gateway call that fails at transport level gives exactly one log
\* entry, an error, no transcribed or task entry, and the recording state is
\* idle after it.
C14_TransportFailure ==
    [][AnsweredWith("Failed to send audio: Failed to fetch") =>
         /\ Cardinality(NewEntries) = 1
         /\ \A e \in NewEntries : e.type = "error"
         /\ recordingStatus' = "idle"]_vars

-----------------------------------------------------------------------------
(* Claims about eviction *)

\* C15: after more than 50 appends with strictly increasing timestamps the log
\* holds exactly the 50 entries appended last, the newest first.
C15_FiftyMostRecent ==
    nextId > LogCapacity =>
        /\ Len(logs) = LogCapacity
        /\ \A i \in 1..Len(logs) : logs[i].id = nextId - i + 1

\* 52 appends were made, each with a larger timestamp key than the one before.
C15_Witness ==
    /\ lastOp = "addLog"
    /\ nextId = LogCapacity + 2
    /\ Len(logs) = LogCapacity
    /\ \A i \in 1..(Len(logs) - 1) : Key(i) > Key(i + 1)

\* The ids of the entries a log holds; ids are given in creation order.
IdsOf(l) == { l[i].id : i \in 1..Len(l) }

\* C16: an append to a log of 50 entries evicts the entry created earliest and
\* keeps the new entry with the other 49, whatever the timestamp keys are.
C16_EvictsOldest ==
    [][lastOp' = "addLog" /\ nextId' = nextId + 1 /\ Len(logs) = LogCapacity =>
         LET oldest == CHOOSE x \in IdsOf(logs) : \A y \in IdsOf(logs) : x <= y IN
         IdsOf(logs') = (IdsOf(logs) \ {oldest}) \cup {nextId'}]_vars

-----------------------------------------------------------------------------
(* Claims about the resolver's tiers *)

\* The log entries a run of the platform detection effect has created: on a
\* mount the log starts over.
ResolveEntries ==
    IF lastOp' = "mount" THEN { logs'[i] : i \in 1..Len(logs') } ELSE NewEntries

\* C17: with no navigation payload, no cookies and a parseable tier-2 record
\* for Linear, the resolver leaves platform Linear with the record as config
\* and isConfigured true, and logs exactly one entry, informational, that
\* names Linear.
C17_LinearFromTierTwo ==
    [][/\ lastOp' \in {"mount", "locationChange"}
       /\ logs' # logs
       /\ lastPayload' = NoPayload
       /\ lsLinear # NoItem /\ Parses(lsLinear)
       /\ cookies = NoCookies
       => /\ selectedTool' = "linear"
          /\ platformConfig' = Parse(lsLinear)
          /\ isConfigured'
          /\ Cardinality(ResolveEntries) = 1
          /\ \A e \in ResolveEntries :
                e.type = "info" /\ e.message = "Connected to Linear"]_vars

\* The component has mounted without payload and without cookies on the
\* stored Linear record {apiKey: "k1", workspaceId: "w1"}.
C17_Witness ==
    /\ lastOp = "mount"
    /\ lastPayload = NoPayload
    /\ lsLinear = Stringify([apiKey |-> "k1", workspaceId |-> "w1"])
    /\ cookies = NoCookies
    /\ selectedTool = "linear"
    /\ platformConfig = [apiKey |-> "k1", workspaceId |-> "w1"]
    /\ Len(logs) = 1

-----------------------------------------------------------------------------
(* Claims about the task entries *)

\* "Task created" for the operation create, the operation verbatim otherwise,
\* and the task after a colon when one is named.
ExpectedTaskMessage(o, t) ==
    (IF o = "create" THEN "Task created" ELSE "Task " \o o)
        \o (IF t = Absent THEN "" ELSE ": " \o t)

\* The step is the handling of a decoded gateway body whose results array
\* holds a successful element.
AnsweredResults ==
    /\ lastOp' = "stopRecording:answered"
    /\ calls' # calls
    /\ lastAnswer'.kind = "body"
    /\ lastAnswer'.isArray
    /\ \E k \in 1..Len(lastAnswer'.results) : lastAnswer'.results[k].success

\* C18: for every successful element of the results of a gateway response
\* exactly one task entry is logged, reading "Task created: t" for the
\* operation create and "Task o: t" for any other operation o, without ": t"
\* when no task is named; the recording state is idle after the response.
C18_TaskEntries ==
    [][AnsweredResults =>
         LET r == lastAnswer'.results
             base == nextId + (IF lastAnswer'.transcript # Absent THEN 1 ELSE 0)
         IN
         /\ \A k \in 1..Len(r) : r[k].success =>
                \E e \in NewEntries :
                    /\ e.id = base + k
                    /\ e.type = "task"
                    /\ e.message = ExpectedTaskMessage(r[k].operation, r[k].task)
         /\ Cardinality({ e \in NewEntries : e.type = "task" })
                = Cardinality({ k \in 1..Len(r) : r[k].success })
         /\ recordingStatus' = "idle"]_vars

-----------------------------------------------------------------------------
(* Claims about failures *)

\* C19: no failure leaves the operation that meets it as an uncaught fault: an
\* undecodable stored record, a device failure, a transport failure, an
\* unparseable or null gateway body and a failing result element are handled
\* where they occur, on every surface that reads stored configuration.
C19_NoUncaughtFault == uncaught = FALSE

\* C20: when the device cannot be acquired on start, the recording state stays
\* idle, no tick timer is started, the elapsed time is unchanged and exactly
\* one entry, an error, is logged.
C20_FailedStartStaysIdle ==
    [][lastOp' = "startRecording:failed" /\ calls' # calls =>
         /\ recordingStatus' = "idle"
         /\ timers' = timers
         /\ nextTimer' = nextTimer
         /\ recordingInterval' = recordingInterval
         /\ recordingTime' = recordingTime
         /\ Cardinality(NewEntries) = 1
         /\ \A e \in NewEntries : e.type = "error"]_vars

-----------------------------------------------------------------------------
(* Claims about the results of a response *)

\* The step is the handling of a decoded gateway body with a results array.
AnsweredArray ==
    /\ lastOp' = "stopRecording:answered"
    /\ calls' # calls
    /\ lastAnswer'.kind = "body"
    /\ lastAnswer'.isArray

\* C21: a results sequence of n elements gives exactly n log entries for the
\* results, one per element in sequence order, a task entry for a success and
\* an error entry for a failure; elements after a failure are still logged.
C21_OneEntryPerElement ==
    [][AnsweredArray =>
         LET r == lastAnswer'.results
             base == nextId + (IF lastAnswer'.transcript # Absent THEN 1 ELSE 0)
         IN
         /\ nextId' = base + Len(r)
         /\ Cardinality({ e \in NewEntries : e.id > base }) = Len(r)
         /\ \A k \in 1..Len(r) :
                \E e \in NewEntries :
                    /\ e.id = base + k
                    /\ e.type = IF r[k].success THEN "task" ELSE "error"]_vars

C21_Witness ==
    /\ lastOp = "stopRecording:answered"
    /\ lastAnswer.kind = "body"
    /\ lastAnswer.isArray
    /\ Len(lastAnswer.results) = 2
    /\ ~lastAnswer.results[1].success
    /\ lastAnswer.results[2].success
    /\ \E i, j \in 1..Len(logs) :
           /\ logs[i].id = nextId - 1 /\ logs[i].type = "error"
           /\ logs[j].id = nextId /\ logs[j].type = "task"

-----------------------------------------------------------------------------
(* Claims about the tiers of the resolver *)

\* The step is a run of the platform detection effect without a navigation
\* payload.
ResolvedWithoutPayload ==
    /\ lastOp' \in {"mount", "locationChange"}
    /\ logs' # logs
    /\ lastPayload' = NoPayload

\* What the tiers after the Linear record give: the Asana record, then the
\* cookie tier, then the configuration form.
AfterLinearTier ==
    IF lsAsana # NoItem /\ Parses(lsAsana)
    THEN selectedTool' = "asana" /\ platformConfig' = Parse(lsAsana) /\ isConfigured'
    ELSE IF CookieConfig(cookies) # NullConfig
    THEN /\ selectedTool' = cookies["platform"]
         /\ platformConfig' = CookieConfig(cookies)
         /\ isConfigured'
    ELSE /\ showConfigForm'
         /\ selectedTool' = (IF lastOp' = "mount" THEN Absent ELSE selectedTool)
         /\ platformConfig' = (IF lastOp' = "mount" THEN NullConfig ELSE platformConfig)
         /\ isConfigured' = (IF lastOp' = "mount" THEN FALSE ELSE isConfigured)

\* C22: a tier-2 record that is there but does not parse counts as absent: the
\* resolver goes on to the next candidate (the other tier-2 record, then the
\* cookie tier, then the unconfigured outcome) and never marks the session
\* configured from the unparseable record.
C22_UnparseableIsAbsent ==
    [][/\ ResolvedWithoutPayload
       /\ Undecodable(lsLinear) \/ (lsLinear = NoItem /\ Undecodable(lsAsana))
       => /\ AfterLinearTier
          /\ (lastOp' = "mount" /\ ~Parses(lsAsana) /\ CookieConfig(cookies) = NullConfig)
                => ~isConfigured']_vars

\* An unparseable Linear record is passed over for the Asana record.
C22_Witness ==
    /\ lastOp = "mount"
    /\ lastPayload = NoPayload
    /\ Undecodable(lsLinear)
    /\ lsAsana = Stringify(AsanaCfg)
    /\ selectedTool = "asana"
    /\ platformConfig = AsanaCfg
    /\ isConfigured

\* The marker cookie names a platform and a required cookie of it is missing.
MarkerWithoutFields ==
    /\ cookies["platform"] # Absent
    /\ \E f \in RequiredFields(cookies["platform"]) : cookies[f] = Absent

\* The resolver gets as far as the cookie tier: no payload and no tier-2 record
\* that decodes.
ReachesCookieTier ==
    /\ ResolvedWithoutPayload
    /\ ~(lsLinear # NoItem /\ Parses(lsLinear))
    /\ ~(lsAsana # NoItem /\ Parses(lsAsana))

\* C23: at the cookie tier with the platform marker set, the session is marked
\* configured only if every required cookie of the marked platform is present;
\* with a required cookie missing the result is unconfigured: no platform, no
\* config, isConfigured false.
C23_CookieTierComplete ==
    [][ReachesCookieTier /\ MarkerWithoutFields =>
         /\ selectedTool' = Absent
         /\ platformConfig' = NullConfig
         /\ ~isConfigured']_vars

\* Neither the payload nor a tier-2 record nor the cookies give a config.
NoTierYields ==
    /\ lastPayload = NoPayload
    /\ ~(lsLinear # NoItem /\ Parses(lsLinear))
    /\ ~(lsAsana # NoItem /\ Parses(lsAsana))
    /\ CookieConfig(cookies) = NullConfig

\* C24: when no tier yields a config the resolver leaves no platform, no config
\* and isConfigured false, and the configuration form is presented in that
\* state.
C24_PromptWhenUnconfigured ==
    lastOp \in {"mount", "locationChange"} /\ NoTierYields =>
        /\ selectedTool = Absent
        /\ platformConfig = NullConfig
        /\ ~isConfigured
        /\ FormShown

\* The step is a run of the platform detection effect, on a mount or in place,
\* and not the arrival of a board list after one.
EffectRun ==
    \/ lastOp' = "mount"
    \/ /\ lastOp' = "locationChange"
       /\ Len(boardFetches') >= Len(boardFetches)
       /\ dashFetches' >= dashFetches

\* C25: every run of the resolver logs exactly one entry, of type info,
\* whichever branch it takes.
C25_OneInfoPerResolve ==
    [][EffectRun =>
         /\ Cardinality(ResolveEntries) = 1
         /\ \A e \in ResolveEntries : e.type = "info"
         /\ nextId' = (IF lastOp' = "mount" THEN 1 ELSE nextId + 1)]_vars

\* The run that passes over an unparseable record and ends in the cookie tier.
C25_Witness ==
    /\ lastOp = "locationChange"
    /\ lastPayload = NoPayload
    /\ Undecodable(lsLinear)
    /\ lsAsana = NoItem
    /\ selectedTool = "trello"
    /\ platformConfig = TrelloCfg
    /\ Len(logs) = 2
    /\ \A i \in 1..Len(logs) : logs[i].type = "info"
    /\ \E i \in 1..Len(logs) : logs[i].id = 2 /\ logs[i].message = "Connected to Trello"

-----------------------------------------------------------------------------
(* Claims about saving and switching *)

\* What a save of the complete config c for the platform p leaves in storage
\* and in the log: the record of a platform that keeps one, the cookies of
\* every required field, the marker, and one success entry.
SavedEverywhere(p, c) ==
    /\ p = "linear" => lsLinear' = Stringify(c)
    /\ p = "asana" => lsAsana' = Stringify(c)
    /\ \A f \in RequiredFields(p) : cookies'[f] = c[f]
    /\ cookies'["platform"] = p
    /\ Cardinality(NewEntries) = 1
    /\ \A e \in NewEntries : e.type = "success"

\* C26: a successful save of a complete config for a platform sets the session
\* to that platform, that config and isConfigured true, writes the tier-2
\* record of a platform that keeps one, writes the cookie fields and the
\* marker, and logs exactly one success entry, on the form of the dashboard
\* and on the stand-alone configuration page alike.
C26_SaveWritesEverything ==
    [][/\ lastOp' = "save" /\ nextId' # nextId
          => /\ selectedTool' = selectedTool
             /\ CompleteFor(selectedTool', platformConfig')
             /\ isConfigured'
             /\ SavedEverywhere(selectedTool', platformConfig')
       /\ lastOp' = "configureApp" /\ Len(boardFetches') >= Len(boardFetches)
                                   /\ dashFetches' >= dashFetches
          => \E app \in {"linear", "asana"} :
                /\ CompleteFor(app, formData')
                /\ SavedEverywhere(app, formData')]_vars

\* C27: the switch of platform deletes every cookie, the credential fields and
\* the marker, and leaves the tier-2 records as they are, so that the next
\* resolve without a navigation payload restores the platform whose record was
\* there before the switch, with the config of the record.
C27_SwitchKeepsRecords ==
    [][/\ lastOp' = "confirmSwitchApp" /\ nextId' # nextId
          => /\ \A n \in CookieNames : cookies'[n] = Absent
             /\ lsLinear' = lsLinear
             /\ lsAsana' = lsAsana
       /\ lastOp = "confirmSwitchApp" /\ lastOp' = "mount" /\ lastPayload' = NoPayload
          => /\ lsLinear # NoItem /\ Parses(lsLinear)
                => selectedTool' = "linear" /\ platformConfig' = Parse(lsLinear)
                   /\ isConfigured'
             /\ lsLinear = NoItem /\ lsAsana # NoItem /\ Parses(lsAsana)
                => selectedTool' = "asana" /\ platformConfig' = Parse(lsAsana)
                   /\ isConfigured']_vars

\* The switch has acted on a session restored from the Linear record while
\* cookies were stored.
C27_Witness ==
    /\ lastOp = "confirmSwitchApp"
    /\ lsLinear = Stringify(LinearCfg)
    /\ cookies = NoCookies
    /\ selectedTool = Absent
    /\ ~isConfigured
    /\ \E i \in 1..Len(logs) : logs[i].message = "Connected to Linear"
    /\ \E i \in 1..Len(logs) : logs[i].message = "Switched to different app"

-----------------------------------------------------------------------------
(* Claims about the boards *)

\* The step is the handling of the response to a board-discovery request by
\* the component on screen.
DiscoveryEnds ==
    /\ lastFetch'.kind = "answered"
    /\ Len(boardFetches') < Len(boardFetches) \/ dashFetches' < dashFetches

\* The board list and the error of the component that handled the response.
BoardsAfter == IF lastFetch'.on = "fetchBoards" THEN trelloBoards' ELSE dashBoards'
ErrorAfter == IF lastFetch'.on = "fetchBoards" THEN trelloBoardError' ELSE dashBoardError'

\* C28: board discovery ends with the list set to exactly the returned boards
\* and the error cleared, or, on a provider error payload or a transport
\* failure, with the list empty and a non-empty error; the list is replaced as
\* a whole, so an empty list without error means that zero boards came back.
C28_DiscoveryOutcomes ==
    [][DiscoveryEnds =>
         IF lastFetch'.outcome.kind = "boards"
         THEN BoardsAfter = lastFetch'.outcome.boards /\ ErrorAfter = Absent
         ELSE BoardsAfter = <<>> /\ ErrorAfter # Absent]_vars

\* The step is handleBoardSelect.
BoardSelectStep ==
    /\ lastOp' = "selectBoard"
    /\ Len(boardFetches') >= Len(boardFetches)
    /\ dashFetches' >= dashFetches

\* C29: selecting a board on the platform with board discovery, with a config
\* that holds key and token, sets the board of the config, keeps its other
\* fields and stores the board so that a later resolve from the cookie tier
\* gives the same board; for any other platform config and storage stay as
\* they are.
C29_SelectBoard ==
    [][/\ BoardSelectStep
          => /\ IF selectedTool = "trello" /\ platformConfig # NullConfig
                    /\ {"apiKey", "token"} \subseteq DOMAIN platformConfig
                THEN /\ platformConfig'.boardId = selectedBoardId'
                     /\ DOMAIN platformConfig' = DOMAIN platformConfig \cup {"boardId"}
                     /\ \A f \in DOMAIN platformConfig \ {"boardId"} :
                            platformConfig'[f] = platformConfig[f]
                     /\ cookies'["boardId"] = selectedBoardId'
                     /\ \A n \in CookieNames \ {"boardId"} : cookies'[n] = cookies[n]
                     /\ CookieConfig(cookies') = platformConfig'
                ELSE platformConfig' = platformConfig /\ cookies' = cookies
             /\ UNCHANGED <<lsLinear, lsAsana, lsTrelloToken>>
             /\ \A tool \in {"linear", "asana", Absent} :
                    BoardSelected(tool, platformConfig, cookies, selectedBoardId')
                        = [config |-> platformConfig, cookies |-> cookies]
       /\ /\ lastOp = "selectBoard" /\ lastOp' = "mount" /\ lastPayload' = NoPayload
          /\ ~(lsLinear # NoItem /\ Parses(lsLinear))
          /\ ~(lsAsana # NoItem /\ Parses(lsAsana))
          /\ selectedTool = "trello" /\ platformConfig # NullConfig
          /\ {"apiKey", "token"} \subseteq DOMAIN platformConfig
          => /\ selectedTool' = "trello"
             /\ isConfigured'
             /\ platformConfig'.boardId = selectedBoardId]_vars

\* A board other than the stored one has been selected.
C29_Witness ==
    /\ lastOp = "selectBoard"
    /\ selectedTool = "trello"
    /\ selectedBoardId = "b2"
    /\ platformConfig = [apiKey |-> "k1", token |-> "t1", boardId |-> "b2"]
    /\ cookies["boardId"] = "b2"
    /\ cookies["platform"] = "trello"

\* The steps of startRecording, stopRecording and the tick.
RecordingOps ==
    {"startRecording", "stopRecording", "startRecording:acquired", "startRecording:failed",
     "stopRecording:sent", "stopRecording:failed", "stopRecording:answered", "tick"}

RecordingStep == lastOp' \in RecordingOps /\ <<calls, recordingTime>>' # <<calls, recordingTime>>

\* C30: start, stop, the tick and the handling of every gateway answer leave
\* platform, config and isConfigured as they are, and the config handed to the
\* gateway is the session's config as it was when stop was pressed.
C30_RecordingKeepsSession ==
    [][/\ RecordingStep => UNCHANGED <<selectedTool, platformConfig, isConfigured>>
       /\ lastOp' = "stopRecording" /\ Len(calls') = Len(calls) + 1
          => /\ calls'[Len(calls')].config = platformConfig
             /\ calls'[Len(calls')].tool = selectedTool
       /\ lastOp' = "stopRecording:sent" /\ calls' # calls
          => \A i \in 1..Len(calls) :
                calls'[i].config = calls[i].config /\ calls'[i].tool = calls[i].tool]_vars

\* A stop was pressed with one board in the config and its audio is at the
\* gateway with that config, while the session has moved on to another board.
C30_Witness ==
    /\ surface = UD
    /\ \E i \in 1..Len(calls) :
          /\ calls[i].at = "gateway"
          /\ calls[i].config = TrelloCfg
    /\ platformConfig = [apiKey |-> "k1", token |-> "t1", boardId |-> "b2"]
    /\ isConfigured

\* The entries of log l created as the n-th addLog call or later.
CreatedFrom(l, n) == { l[k] : k \in { j \in 1..Len(l) : l[j].id >= n } }

ResponseKinds == {"transcribed", "task", "error"}

\* C31: a successful stop creates a success entry and then a voice-received
\* entry before the gateway is called, and every entry made from the gateway's
\* answer is created after both.
C31_StopEntriesFirst ==
    [][/\ lastOp' = "stopRecording:sent" /\ calls' # calls
          => /\ nextId' = nextId + 2
             /\ \E s, v \in CreatedFrom(logs', nextId + 1) :
                   /\ s.id = nextId + 1 /\ s.type = "success" /\ s.message = "Processing..."
                   /\ v.id = nextId + 2 /\ v.type = "voice" /\ v.message = "Voice received"
                   /\ CreatedFrom(logs', nextId + 1) = {s, v}
             /\ \E i \in 1..Len(calls) : calls[i].at = "teardown" /\ calls'[i].at = "gateway"
             /\ \A i \in 1..Len(calls) : calls[i].at = "gateway" => calls'[i].at = "gateway"
       /\ lastOp' = "stopRecording:answered" /\ calls' # calls
          => /\ \E i \in 1..Len(calls) : calls[i].at = "gateway"
             /\ \E s, v \in CreatedFrom(logs, 1) :
                   /\ s.type = "success" /\ v.type = "voice" /\ v.id = s.id + 1
                   /\ \A e \in CreatedFrom(logs', nextId + 1) :
                         v.id < e.id /\ e.type \in ResponseKinds]_vars

\* The gateway has answered a stop with a transcript, and the log holds the
\* transcribed entry after the two entries of the stop.
C31_Witness ==
    /\ lastOp = "stopRecording:answered"
    /\ \E s, v, e \in CreatedFrom(logs, 1) :
          /\ s.type = "success" /\ v.type = "voice" /\ e.type = "transcribed"
          /\ s.id < v.id /\ v.id < e.id

\* The entries a log holds.
Entries(l) == { l[k] : k \in 1..Len(l) }

\* C32: an append leaves every retained entry as it was (id, timestamp, kind,
\* message, details), removes at most one entry, and removes one only when the
\* log held 50 entries before the call; no other step removes or changes an entry.
C32_AppendKeepsEntries ==
    [][IF nextId' = nextId + 1
       THEN /\ \A e \in Entries(logs') : e.id <= nextId => e \in Entries(logs)
            /\ \E e \in Entries(logs') : e.id = nextId + 1
            /\ Cardinality(Entries(logs) \ Entries(logs')) <= 1
            /\ Entries(logs) \ Entries(logs') # {} => Len(logs) = LogCapacity
       ELSE logs' = logs]_vars

\* The 51st append has been made: the log is full and one earlier entry is gone.
C32_Witness ==
    /\ lastOp = "addLog"
    /\ nextId = LogCapacity + 1
    /\ Cardinality(Entries(logs)) = LogCapacity
    /\ \E id \in 1..LogCapacity : \A e \in Entries(logs) : e.id # id

\* The platform whose required fields the submitted form of ConfigureApp holds.
FormApp == IF "workspaceId" \in DOMAIN formData THEN "linear" ELSE "asana"

\* The next step is a resolve on a fresh mount without a navigation payload.
ResolveWithoutPayload == lastOp' = "mount" /\ lastPayload' = NoPayload

\* C33: after a successful save of a complete config c for a platform p, a
\* resolve without a navigation payload gives platform p, config c and
\* isConfigured true, whatever records of other platforms were stored before.
C33_SaveThenResolve ==
    [][/\ lastOp = "save" /\ ResolveWithoutPayload
          => /\ selectedTool' = selectedTool
             /\ platformConfig' = platformConfig
             /\ isConfigured'
       /\ lastOp = "configureApp" /\ ResolveWithoutPayload
          => /\ selectedTool' = FormApp
             /\ platformConfig' = formData
             /\ isConfigured']_vars

\* C34: on a mount, for every navigation payload and every content of the
\* records, the Trello token and the cookies, the effect of Dashboard and the
\* effect of UnifiedDashboard select the same platform, or both select none.
C34_ResolversAgree ==
    lastOp = "mount" => selectedTool = dashPlatform

\* C35: after handleLogout no tier holds a usable configuration, and the next
\* resolve without a navigation payload finds no platform and no configuration
\* in UnifiedDashboard and in Dashboard.
C35_LogoutClearsAll ==
    [][/\ lastOp' = "logout" /\ lastOp # "logout"
          => /\ lsLinear' = NoItem /\ lsAsana' = NoItem /\ lsTrelloToken' = Absent
             /\ CookieConfig(cookies') = NullConfig
       /\ lastOp = "logout" /\ ResolveWithoutPayload
          => /\ selectedTool' = Absent /\ platformConfig' = NullConfig /\ ~isConfigured'
             /\ dashPlatform' = Absent]_vars

\* C36: a board-discovery response that arrives late overwrites nothing newer:
\* while the component is on screen, whenever the active platform is not the
\* one with board discovery and no discovery is pending, the board list is
\* empty and the board error is cleared.
C36_LateAnswerHarmless ==
    Mounted /\ selectedTool # "trello" /\ boardFetches = <<>>
        => trelloBoards = <<>> /\ trelloBoardError = Absent

\* C37: in every state of UnifiedDashboard, reached by resolves, saves, config
\* cancels, board selections and platform switches in any order, isConfigured
\* true implies that a platform is selected.
C37_ConfiguredHasPlatform ==
    isConfigured => selectedTool # Absent

\* The form of a configured session was cancelled: the session is still
\* configured and still has its platform.
C37_Witness ==
    /\ lastOp = "cancel"
    /\ isConfigured
    /\ selectedTool \in {"linear", "asana"}
    /\ ~showConfigForm

\* The record the stand-alone page writes for a platform.
RecordOf(app) == IF app = "linear" THEN lsLinear ELSE lsAsana

\* C38: on the stand-alone configuration page a submit with a required field
\* empty writes nothing and is not followed by the navigation to the dashboard;
\* a submit with every required field writes the record before the handoff is
\* issued, the handoff carries the platform and the config that were stored,
\* and the dashboard resolves to that platform, configured.
C38_PageSubmit ==
    [][/\ /\ lastOp' \in {"configureApp", "configureApp:refused"}
          /\ \A app \in {"linear", "asana"} : ~CompleteFor(app, formData')
          => UNCHANGED storeVars /\ lastOp' = "configureApp:refused"
       /\ lastOp = "configureApp:refused" => lastOp' # "handoff"
       /\ lastOp' = "configureApp"
          => \E app \in {"linear", "asana"} :
                /\ CompleteFor(app, formData')
                /\ RecordOf(app)' = Stringify(formData')
       /\ lastOp' = "handoff"
          => /\ lastOp = "configureApp"
             /\ \E app \in {"linear", "asana"} :
                   /\ RecordOf(app) = Stringify(formData)
                   /\ lastPayload'.platform = app
                   /\ lastPayload'.config = formData
                   /\ selectedTool' = app
                   /\ platformConfig' = Parse(RecordOf(app))
                   /\ isConfigured'
             /\ UNCHANGED storeVars]_vars

\* The dashboard has opened on the handoff of a submit made while a record of
\* the other platform was stored.
C38_Witness ==
    /\ lastOp = "handoff"
    /\ selectedTool = "asana"
    /\ platformConfig = AsanaCfg
    /\ isConfigured
    /\ lsAsana = Stringify(AsanaCfg)
    /\ Usable(lsLinear)

====
